---- MODULE Spec2Model ----
(***************************************************************************)
(* A model of SurfGEO's crawler (agents/scrapper_agent.py) and of its      *)
(* analysis pipeline (controller.py, agents/schemas.py).                   *)
(*                                                                         *)
(* URLs are modelled structurally.  A URL is a record                      *)
(*   [host, path, slash, query, frag]                                      *)
(* host : the netloc as a sequence of tokens ("www.", "example.", "com"),  *)
(* path : the sequence of path segments, slash : a trailing "/",           *)
(* query / frag : whether a "?..." / "#..." part is present.  Two records  *)
(* are equal exactly when the strings they stand for are equal.  All URLs  *)
(* of the model use the scheme https.                                      *)
(***************************************************************************)
EXTENDS Integers, Sequences, FiniteSets, TLC

VARIABLES
    \* ---- one scrape_site run (ScraperAgent) ----
    site,            \* which fixture site is being crawled
    max_pages,       \* scrape_site's max_pages argument
    visited,         \* self.visited
    rejected_urls,   \* self.rejected_urls
    queue,           \* scrape_site's local queue
    scraped_pages,   \* scrape_site's local scraped_pages (the url of each record)
    urls_to_fetch,   \* the current batch
    tasks,           \* the batch's scrape_and_extract coroutines
    semaphore,       \* free permits of self.semaphore
    cpc,             \* where scrape_site is: "init", "loop", "gather", "process", "done",
                     \* "aborted"; "compiled" once scrape_website has aggregated
    ridx,            \* index of the next result the result loop handles
    returned,        \* what scrape_site returned (a sequence), or None
    dispatched,      \* history: every url a scrape_and_extract task was created for
    attempts,        \* history: the set of <<url, attempt, outcome>> of the fetch attempts made
    \* ---- scrape_website's aggregation of the pages scrape_site returned ----
    compiled,        \* the compiled dict
    \* ---- the aggregation applied to a list of page records ----
    agg_in,          \* the page records
    agg_once,        \* the aggregate after the merge and dedup pass
    agg_twice,       \* the aggregate after a second merge and dedup pass
    agg_pc,          \* number of passes made
    \* ---- normalize_url applied to a pair of urls ----
    nu_in, nu_out,
    \* ---- one run_workflow call (controller.py) ----
    company_name,    \* run_workflow's argument
    state,           \* the graph's current ResearchState (one value per field)
    active,          \* the nodes of the current superstep
    writes,          \* what each node of the superstep that has returned, returned
    step,            \* number of the current superstep
    ppc,             \* "idle", "running", "finished"
    final,           \* what run_workflow returned
    completed,       \* history: nodes whose superstep has been merged
    runlog,          \* history: <<superstep, node>> for every node invocation
    failures,        \* history: <<superstep, node, message>> for every node that returned
                     \* having set state['error'] itself
    attempted,       \* history: <<field, value held, value returned>> for every return of
                     \* another value for a field that held a non-empty one
    raised,          \* history: the nodes that raised out of their callable
    response,        \* what the /run endpoint answered: [status, body]
    crawl_raised     \* history: scrape_site raised inside scrape_website

cvars == <<site, max_pages, visited, rejected_urls, queue, scraped_pages,
           urls_to_fetch, tasks, semaphore, cpc, ridx, returned, dispatched,
           attempts>>
wvars == <<compiled>>
avars == <<agg_in, agg_once, agg_twice, agg_pc>>
nvars == <<nu_in, nu_out>>
pvars == <<company_name, state, active, writes, step, ppc, final, completed, runlog,
           failures, attempted, raised, response, crawl_raised>>

None == "None"

------------------------------------------------------------------------------
(* Bounds of the model *)
MaxPagesBound == 4     \* the largest max_pages the small sites are crawled with
WideLinks == 22        \* the number of pages the home page of the wide site links to
AggMaxPages == 2       \* the longest page list the aggregation is applied to

------------------------------------------------------------------------------
(* Sequence helpers *)
Range(s) == {s[i] : i \in 1..Len(s)}

RECURSIVE SeqFilterOut(_, _)
\* s without the elements equal to x
SeqFilterOut(s, x) ==
    IF s = <<>> THEN <<>>
    ELSE IF Head(s) = x THEN SeqFilterOut(Tail(s), x)
         ELSE <<Head(s)>> \o SeqFilterOut(Tail(s), x)

Count(s, x) == Cardinality({i \in 1..Len(s) : s[i] = x})

NoDup(s) == \A i, j \in 1..Len(s) : s[i] = s[j] => i = j

\* every ordering of a finite set, as sequences
Orderings(S) ==
    {f \in [1..Cardinality(S) -> S] : \A i, j \in 1..Cardinality(S) : f[i] = f[j] => i = j}

Min(a, b) == IF a < b THEN a ELSE b

------------------------------------------------------------------------------
(* URLs *)
H_example == <<"example.", "com">>               \* example.com
H_www     == <<"www.", "example.", "com">>       \* www.example.com
H_upper   == <<"WWW.", "Example.", "com">>       \* WWW.Example.com
H_evil    == <<"evil.", "com">>                  \* evil.com
H_inner   == <<"example.", "www.", "com">>       \* example.www.com

U(h, p) == [host |-> h, path |-> p, slash |-> FALSE, query |-> FALSE, frag |-> FALSE]

\* str.lower() on one token
Lower(tok) ==
    CASE tok = "WWW." -> "www."
      [] tok = "Example." -> "example."
      [] OTHER -> tok

LowerSeq(h) == [i \in 1..Len(h) |-> Lower(h[i])]

\* domain.lower().replace("www.", "").strip(): every occurrence of "www." goes
normalize_domain(domain) == SeqFilterOut(LowerSeq(domain), "www.")

\* urlunparse((scheme, netloc, path.rstrip('/'), '', '', ''))
normalize_url(url) ==
    [host |-> url.host, path |-> url.path, slash |-> FALSE, query |-> FALSE, frag |-> FALSE]

StaticAssetSegments == {"doc.pdf", "logo.png", "app.js"}

\* any(url.endswith(ext) for ext in ('.pdf', ...)): the url string ends with its
\* last path segment unless a "/", a query or a fragment follows it
EndsWithAssetExt(url) ==
    /\ ~url.slash /\ ~url.query /\ ~url.frag
    /\ url.path # <<>>
    /\ url.path[Len(url.path)] \in StaticAssetSegments

\* the boolean is_valid_url computes
is_valid_url(url, domain, vis) ==
    /\ normalize_domain(url.host) = normalize_domain(domain)
    /\ url \notin vis
    /\ ~EndsWithAssetExt(url)
    /\ ~url.frag

\* full_url.replace('fframeworks', 'frameworks')
FixTypo(url) ==
    [url EXCEPT !.path = [i \in 1..Len(url.path) |->
        IF url.path[i] = "fframeworks" THEN "frameworks" ELSE url.path[i]]]

\* An href of a page: the absolute url urljoin(current_url, href) gives, and
\* whether the raw href starts with '#'.
Href(u) == [url |-> u, anchor |-> FALSE]
AnchorHref(u) == [url |-> [u EXCEPT !.frag = TRUE], anchor |-> TRUE]

\* the url get_links derives from one href:
\* normalize_url(urljoin(current_url, href).split('#')[0]), typo fixed
LinkOf(href) == FixTypo(normalize_url([href.url EXCEPT !.frag = FALSE]))

RECURSIVE get_links(_, _, _)
\* get_links over the hrefs in document order: the set of links it returns and
\* what is_valid_url appended to rejected_urls on the way
get_links(hrefs, domain, vis) ==
    IF hrefs = <<>> THEN [links |-> {}, rejected |-> <<>>]
    ELSE LET rest == get_links(Tail(hrefs), domain, vis)
             h == Head(hrefs)
         IN  IF h.anchor THEN rest
             ELSE IF is_valid_url(LinkOf(h), domain, vis)
                  THEN [links |-> {LinkOf(h)} \cup rest.links, rejected |-> rest.rejected]
                  ELSE [links |-> rest.links, rejected |-> <<LinkOf(h)>> \o rest.rejected]

------------------------------------------------------------------------------
(* The sites crawled.  A site gives the base url handed to scrape_site and,  *)
(* for every url it serves, the hrefs of the page in document order.         *)
Sites == 1..5

\* Site 4 is wide: its home page links to WideLinks pages without links.  It is
\* crawled as scrape_website does, with max_pages=100, and it is served
\* steadily: every fetch succeeds at once with the whole page, the answers come
\* in the order of the requests, and the link set iterates in document order.
WideSite == 4
\* Site 5 links from its home page to a page of the host example.www.com.
InnerSite == WideSite + 1
\* The endless site: every page links to a page one segment deeper, which no
\* other page links to, and back to the home page.  It has no last page.
EndlessSite == InnerSite + 1
LeafNames == << "p01", "p02", "p03", "p04", "p05", "p06", "p07", "p08", "p09", "p10",
                "p11", "p12", "p13", "p14", "p15", "p16", "p17", "p18", "p19", "p20",
                "p21", "p22", "p23", "p24", "p25", "p26" >>

Home(h)  == U(h, <<>>)
PageA(h) == U(h, <<"a">>)
PageB(h) == U(h, <<"b">>)
PageD(h) == U(h, <<"d">>)
PageE(h) == U(h, <<"e">>)
About(h) == U(h, <<"about">>)
Post1(h) == U(h, <<"blog", "post-1">>)
Leaf(h, i) == U(h, <<LeafNames[i]>>)

\* the base_url argument of scrape_site
BaseUrl(s) ==
    CASE s = 1 -> Home(H_example)
      [] s = 2 -> [Home(H_www) EXCEPT !.slash = TRUE]     \* https://www.example.com/
      [] OTHER -> Home(H_example)

\* the <a href> values of the page served at url, already joined to the page's url
Hrefs(s, url) ==
    CASE s = 1 /\ url.path = <<>>    -> <<Href(PageA(H_example)), Href(PageB(H_example))>>
      [] s = 1 /\ url.path = <<"a">> -> <<Href(PageD(H_example)), Href(PageE(H_example))>>
      [] s = 1 /\ url.path = <<"b">> -> <<Href(Home(H_example)), Href(PageA(H_example))>>
      [] s = 2 /\ url.path = <<>>    ->
            << Href(PageA(H_www)),
               AnchorHref(Home(H_www)),
               Href(PageA(H_example)),
               Href(U(H_evil, <<"x">>)) >>
      \* https://example.com/a, on the other host, is a page without links
      [] s = 2 /\ url = PageA(H_www) ->
            << Href([About(url.host) EXCEPT !.frag = TRUE]),      \* href="/about#team"
               Href(U(url.host, <<"doc.pdf">>)),                  \* href="/doc.pdf"
               Href([Home(H_www) EXCEPT !.slash = TRUE]) >>
      [] s = 3 /\ url.path = <<>>    -> <<Href(About(H_example)), Href(Post1(H_example))>>
      [] s = WideSite /\ url.path = <<>> -> [i \in 1..WideLinks |-> Href(Leaf(H_example, i))]
      [] s = InnerSite /\ url.path = <<>> -> <<Href(PageA(H_inner))>>
      [] s = EndlessSite -> << Href(U(H_example, Append(url.path, "next"))),
                               Href(Home(H_example)) >>
      [] OTHER -> <<>>

------------------------------------------------------------------------------
(* scrape_site *)
Retries == 2               \* scrape_and_extract(..., retries: int = 2)
SemaphoreLimit == 20       \* asyncio.Semaphore(20)
BatchLimit == 20           \* min(20, ...)
ScrapeWebsiteMaxPages == 100   \* self.scrape_site(company_url, max_pages=100)
ReturnExceptionsOff == FALSE   \* (mutation) gather without return_exceptions
ReturnExceptions == TRUE   \* asyncio.gather(*tasks, return_exceptions=True)

\* the max_pages arguments a site is crawled with
MaxPagesChoices(s) == IF s = WideSite THEN {ScrapeWebsiteMaxPages} ELSE 0..MaxPagesBound

\* the site being crawled is served steadily
Steady == site = WideSite

\* how much of a page's hrefs an attempt can get: all of them, or, after a
\* timeout, the ones loaded so far
ContentPrefixes(all) == IF Steady THEN {Len(all)} ELSE 0..Len(all)

\* list(links): the orders the set of links can be iterated in
LinkOrders(all, links) ==
    IF Steady
    THEN {SelectSeq([i \in 1..Len(all) |-> LinkOf(all[i])], LAMBDA u : u \in links)}
    ELSE Orderings(links)

\* domain = self.normalize_domain(urlparse(base_url).netloc)
Domain == normalize_domain(BaseUrl(site).host)

\* (mutation) the batch size without the remaining page budget
BatchSizeNoBudget == Min(BatchLimit, Len(queue))

\* batch_size = min(20, max_pages - len(scraped_pages), len(queue))
BatchSize == Min(BatchLimit, Min(max_pages - Len(scraped_pages), Len(queue)))

\* while queue and len(scraped_pages) < max_pages
LoopCondition == queue # <<>> /\ Len(scraped_pages) < max_pages

\* (mutation) the url is not added to visited
MarkVisitedForgotten(vis, url) == vis

\* self.visited.add(url) when a url is taken for the batch
MarkVisited(vis, url) == vis \cup {url}

\* (mutation) url = queue[0]: the head is read and left in the queue
PopBatchKeepsQueue(n, q, vis, fetch) ==
    IF n = 0 \/ q = <<>> THEN [queue |-> q, visited |-> vis, fetch |-> fetch]
    ELSE [queue |-> q, visited |-> vis \cup {Head(q)},
          fetch |-> IF Head(q) \in vis THEN fetch ELSE Append(fetch, Head(q))]

RECURSIVE PopBatch(_, _, _, _)
\* for _ in range(batch_size): pop the head; take it unless visited, marking it
PopBatch(n, q, vis, fetch) ==
    IF n = 0 \/ q = <<>> THEN [queue |-> q, visited |-> vis, fetch |-> fetch]
    ELSE IF Head(q) \notin vis
         THEN PopBatch(n - 1, Tail(q), MarkVisited(vis, Head(q)), Append(fetch, Head(q)))
         ELSE PopBatch(n - 1, Tail(q), vis, fetch)

\* (mutation) the budget check keeping one page in reserve
MayEnqueueStrict(link, q, nscraped, vis) ==
    /\ nscraped + Len(q) + 1 < max_pages
    /\ link \notin vis
    /\ link \notin Range(q)

\* the condition under which a discovered link is appended to the queue
MayEnqueue(link, q, nscraped, vis) ==
    /\ nscraped + Len(q) < max_pages
    /\ link \notin vis
    /\ link \notin Range(q)

RECURSIVE EnqueueLinks(_, _, _, _)
\* for link in result["links"]: append it when MayEnqueue
EnqueueLinks(links, q, nscraped, vis) ==
    IF links = <<>> THEN q
    ELSE EnqueueLinks(Tail(links),
                      IF MayEnqueue(Head(links), q, nscraped, vis)
                      THEN Append(q, Head(links)) ELSE q,
                      nscraped, vis)

NewTask(url) == [url |-> url, st |-> "new", attempt |-> 0, result |-> None]

CrawlInit ==
    /\ site = 1
    /\ max_pages = 0
    /\ visited = {}
    /\ rejected_urls = <<>>
    /\ queue = <<>>
    /\ scraped_pages = <<>>
    /\ urls_to_fetch = <<>>
    /\ tasks = <<>>
    /\ semaphore = SemaphoreLimit
    /\ cpc = "init"
    /\ ridx = 0
    /\ returned = None
    /\ dispatched = <<>>
    /\ attempts = {}

\* scrape_site up to the loop: state cleared, scheme added, queue seeded
ScrapeSiteStart ==
    /\ cpc = "init"
    /\ \E s \in Sites : \E m \in MaxPagesChoices(s) :
         /\ site' = s
         /\ max_pages' = m
         /\ queue' = <<normalize_url(BaseUrl(s))>>
    /\ visited' = {}
    /\ rejected_urls' = <<>>
    /\ scraped_pages' = <<>>
    /\ cpc' = "loop"
    /\ UNCHANGED <<wvars, avars, nvars, pvars>>
    /\ UNCHANGED <<urls_to_fetch, tasks, semaphore, ridx, returned, dispatched, attempts>>

\* one pass of the loop head: the batch is popped and its tasks are created
StartBatch ==
    /\ cpc = "loop"
    /\ LoopCondition
    /\ LET b == PopBatch(BatchSize, queue, visited, <<>>)
       IN  /\ queue' = b.queue
           /\ visited' = b.visited
           /\ urls_to_fetch' = b.fetch
           /\ tasks' = [i \in 1..Len(b.fetch) |-> NewTask(b.fetch[i])]
           /\ dispatched' = dispatched \o b.fetch
    /\ cpc' = "gather"
    /\ UNCHANGED <<wvars, avars, nvars, pvars>>
    /\ UNCHANGED <<site, max_pages, rejected_urls, scraped_pages, semaphore, ridx,
                   returned, attempts>>

\* the loop ends: browser closed, rejected urls saved, scraped_pages returned
LoopExit ==
    /\ cpc = "loop"
    /\ ~LoopCondition
    /\ cpc' = "done"
    /\ returned' = scraped_pages
    /\ UNCHANGED <<wvars, avars, nvars, pvars>>
    /\ UNCHANGED <<site, max_pages, visited, rejected_urls, queue, scraped_pages,
                   urls_to_fetch, tasks, semaphore, ridx, dispatched, attempts>>

------------------------------------------------------------------------------
(* scrape_and_extract: one coroutine per url of the batch *)

LogAttempt(url, n, outcome) == attempts \cup {<<url, n, outcome>>}

\* async with self.semaphore: the coroutine enters the guarded section.  gather
\* starts the coroutines in the order of the batch and each runs to its first
\* suspension, which is past an uncontended acquire.
TaskAcquire(i) ==
    /\ cpc = "gather"
    /\ i \in 1..Len(tasks)
    /\ tasks[i].st = "new"
    /\ \A j \in 1..(i - 1) : tasks[j].st # "new"
    /\ semaphore > 0
    /\ semaphore' = semaphore - 1
    /\ tasks' = [tasks EXCEPT ![i].st = "in"]
    /\ UNCHANGED <<wvars, avars, nvars, pvars>>
    /\ UNCHANGED <<site, max_pages, visited, rejected_urls, queue, scraped_pages,
                   urls_to_fetch, cpc, ridx, returned, dispatched, attempts>>

\* (mutation) a coroutine that ends without releasing the semaphore
FinishKeepsPermit(i, res) ==
    /\ tasks' = [tasks EXCEPT ![i].st = "done", ![i].result = res]
    /\ semaphore' = semaphore

\* the result of a finished coroutine; the semaphore is released on the way out
Finish(i, res) ==
    /\ tasks' = [tasks EXCEPT ![i].st = "done", ![i].result = res]
    /\ semaphore' = semaphore + 1

\* An attempt that yields content: page.goto returned, or it timed out and the
\* partial content (the hrefs loaded so far, a prefix of the page) was captured.
\* The page data is extracted, get_links runs, the dict with "data" is returned.
AttemptSucceeds(i) ==
    /\ cpc = "gather"
    /\ i \in 1..Len(tasks)
    /\ tasks[i].st = "in"
    /\ tasks[i].attempt < Retries
    /\ Steady => \A j \in 1..(i - 1) : tasks[j].st = "done"
    /\ LET url == tasks[i].url
           all == Hrefs(site, url)
       IN \E k \in ContentPrefixes(all) :
            LET gl == get_links(SubSeq(all, 1, k), Domain, visited)
            IN  /\ attempts' = LogAttempt(url, tasks[i].attempt,
                                          IF k = Len(all) THEN "ok" ELSE "timeout_partial")
                /\ rejected_urls' = rejected_urls \o gl.rejected
                /\ \E order \in LinkOrders(all, gl.links) :
                     Finish(i, [kind |-> "ok", url |-> url, links |-> order])
    /\ UNCHANGED <<wvars, avars, nvars, pvars>>
    /\ UNCHANGED <<site, max_pages, visited, queue, scraped_pages, urls_to_fetch,
                   cpc, ridx, returned, dispatched>>

\* what the except clause of an attempt does with the exception: on the last
\* attempt the url is appended to rejected_urls and the error dict is returned
\* (kind "error"); before it the loop goes on to the next attempt.  When
\* closeRaises, page.close() in the finally clause raises and the exception
\* leaves the coroutine (kind "exception").
AttemptRaised(i, outcome, closeRaises) ==
    LET url == tasks[i].url
        last == tasks[i].attempt = Retries - 1
    IN  /\ attempts' = LogAttempt(url, tasks[i].attempt, outcome)
        /\ rejected_urls' = IF last THEN Append(rejected_urls, url) ELSE rejected_urls
        /\ IF closeRaises
           THEN Finish(i, [kind |-> "exception", url |-> url, links |-> <<>>])
           ELSE IF last
                THEN Finish(i, [kind |-> "error", url |-> url, links |-> <<>>])
                ELSE /\ tasks' = [tasks EXCEPT ![i].attempt = @ + 1]
                     /\ semaphore' = semaphore

\* An attempt that raises: a navigation or browser error ("error"), or a timeout
\* after which no content could be captured ("timeout_failed")
AttemptFails(i) ==
    /\ cpc = "gather"
    /\ i \in 1..Len(tasks)
    /\ tasks[i].st = "in"
    /\ tasks[i].attempt < Retries
    /\ ~Steady
    /\ \E outcome \in {"error", "timeout_failed"} : AttemptRaised(i, outcome, FALSE)
    /\ UNCHANGED <<wvars, avars, nvars, pvars>>
    /\ UNCHANGED <<site, max_pages, visited, queue, scraped_pages, urls_to_fetch,
                   cpc, ridx, returned, dispatched>>

\* An attempt that raises and whose page.close() in the finally clause raises too
AttemptFailsCloseRaises(i) ==
    /\ cpc = "gather"
    /\ i \in 1..Len(tasks)
    /\ tasks[i].st = "in"
    /\ tasks[i].attempt < Retries
    /\ ~Steady
    /\ AttemptRaised(i, "error_close", TRUE)
    /\ UNCHANGED <<wvars, avars, nvars, pvars>>
    /\ UNCHANGED <<site, max_pages, visited, queue, scraped_pages, urls_to_fetch,
                   cpc, ridx, returned, dispatched>>

AllTasksDone == \A i \in 1..Len(tasks) : tasks[i].st = "done"

\* results = await asyncio.gather(*tasks, return_exceptions=True)
GatherReturns ==
    /\ cpc = "gather"
    /\ AllTasksDone
    /\ IF ~ReturnExceptions /\ \E i \in 1..Len(tasks) : tasks[i].result.kind = "exception"
       THEN cpc' = "aborted" /\ ridx' = ridx
       ELSE IF tasks = <<>> THEN cpc' = "loop" /\ ridx' = ridx
            ELSE cpc' = "process" /\ ridx' = 1
    /\ UNCHANGED <<wvars, avars, nvars, pvars>>
    /\ UNCHANGED <<site, max_pages, visited, rejected_urls, queue, scraped_pages,
                   urls_to_fetch, tasks, semaphore, returned, dispatched, attempts>>

\* one pass of "for result in results"
ProcessResult ==
    /\ cpc = "process"
    /\ ridx \in 1..Len(tasks)
    /\ LET result == tasks[ridx].result
       IN  CASE result.kind = "exception" ->
                    UNCHANGED <<scraped_pages, queue, rejected_urls>>
             [] result.kind = "ok" ->
                    /\ scraped_pages' = Append(scraped_pages, result.url)
                    /\ queue' = EnqueueLinks(result.links, queue,
                                             Len(scraped_pages) + 1, visited)
                    /\ UNCHANGED rejected_urls
             [] OTHER ->
                    /\ rejected_urls' = Append(rejected_urls, result.url)
                    /\ UNCHANGED <<scraped_pages, queue>>
    /\ IF ridx = Len(tasks)
       THEN cpc' = "loop" /\ ridx' = 0 /\ tasks' = <<>> /\ urls_to_fetch' = <<>>
       ELSE cpc' = "process" /\ ridx' = ridx + 1 /\ UNCHANGED <<tasks, urls_to_fetch>>
    /\ UNCHANGED <<wvars, avars, nvars, pvars>>
    /\ UNCHANGED <<site, max_pages, visited, semaphore, returned, dispatched, attempts>>

------------------------------------------------------------------------------
(* scrape_website: the page records and their aggregation                    *)
(* A page's content is a record of what the extraction xpaths find in it.    *)

EmptyHtml ==
    [article |-> FALSE, h1 |-> <<>>, h2 |-> <<>>, h3 |-> <<>>, paragraphs |-> <<>>,
     article_paragraphs |-> <<>>, date |-> "", faq |-> <<>>, bullet_points |-> <<>>,
     numbered_lists |-> <<>>, call_to_actions |-> <<>>]

Faq(q, a) == [question |-> q, answer |-> a]

\* the content of the page served at url
Html(s, url) ==
    CASE s = 3 /\ url.path = <<>> ->
            [EmptyHtml EXCEPT !.h1 = <<"Welcome">>, !.h2 = <<"News">>, !.h3 = <<"Team">>,
                              !.paragraphs = <<"We build things.">>,
                              !.bullet_points = <<"fast", "fast", "small">>,
                              !.numbered_lists = <<"two">>,
                              !.call_to_actions = <<"Contact us">>,
                              !.faq = <<Faq("Why?", "Because."), Faq("Why?", "Because.")>>]
      [] s = 3 /\ url.path = <<"about">> ->
            [EmptyHtml EXCEPT !.h1 = <<"About">>, !.h2 = <<"News">>,
                              !.h3 = <<"Jobs", "Team", "Jobs">>,
                              !.paragraphs = <<"We build things.">>,
                              !.numbered_lists = <<"one", "two", "one">>,
                              !.call_to_actions = <<"Sign up", "Contact us">>,
                              !.faq = <<Faq("Why?", "Because."), Faq("Why?", "Why not.")>>]
      [] s = 3 /\ url.path = <<"blog", "post-1">> ->
            [EmptyHtml EXCEPT !.article = TRUE, !.h1 = <<"Post 1">>,
                              !.paragraphs = <<"A long story.">>,
                              !.article_paragraphs = <<"A long story.">>,
                              !.date = "2024-01-01"]
      [] OTHER -> [EmptyHtml EXCEPT !.h1 = <<"Page">>]

BlogIndicators == {"blog", "news", "articles", "post", "posts"}

\* any(indicator in url.lower() for indicator in ['/blog/', '/news/', ...])
HasBlogIndicator(url) ==
    \E i \in 1..Len(url.path) :
        /\ Lower(url.path[i]) \in BlogIndicators
        /\ i < Len(url.path) \/ url.slash

\* (mutation) extract_blogs taking every page for a blog page
extract_blogs_everywhere(html, url) ==
    <<[url |-> url, title |-> "", content |-> html.article_paragraphs, date |-> html.date]>>

\* extract_blogs: the blog dict of a page, as a sequence of length 1, or <<>>
\* for the empty dict
extract_blogs(html, url) ==
    IF ~(HasBlogIndicator(url) \/ html.article) THEN <<>>
    ELSE LET title == IF html.h1 # <<>> THEN html.h1[1]
                      ELSE IF html.h2 # <<>> THEN html.h2[1] ELSE ""
         IN  IF title # "" \/ html.article_paragraphs # <<>>
             THEN <<[url |-> url, title |-> title, content |-> html.article_paragraphs,
                     date |-> html.date]>>
             ELSE <<>>

\* extract_page_data; blog is <<>> where the dict has None
extract_page_data(url, html) ==
    [url |-> url, h1 |-> html.h1, h2 |-> html.h2, h3 |-> html.h3,
     paragraphs |-> html.paragraphs, bullet_points |-> html.bullet_points,
     numbered_lists |-> html.numbered_lists, faq |-> html.faq,
     call_to_actions |-> html.call_to_actions, blog |-> extract_blogs(html, url)]

\* compiled = {"website_url": ..., "total_pages_scraped": len(pages),
\*             "compiled_content": {all lists empty}}
EmptyCompiled(n) ==
    [total_pages_scraped |-> n, all_h1_titles |-> <<>>, all_h2_titles |-> <<>>,
     all_h3_titles |-> <<>>, all_paragraphs |-> <<>>, all_faq |-> <<>>,
     all_bullet_points |-> <<>>, all_numbered_lists |-> <<>>,
     all_call_to_actions |-> <<>>, all_blogs |-> <<>>]

\* the body of "for page in pages": every list extended, the blog appended
MergePage(c, page) ==
    [c EXCEPT !.all_h1_titles = @ \o page.h1,
              !.all_h2_titles = @ \o page.h2,
              !.all_h3_titles = @ \o page.h3,
              !.all_paragraphs = @ \o page.paragraphs,
              !.all_faq = @ \o page.faq,
              !.all_bullet_points = @ \o page.bullet_points,
              !.all_numbered_lists = @ \o page.numbered_lists,
              !.all_call_to_actions = @ \o page.call_to_actions,
              !.all_blogs = @ \o page.blog]

RECURSIVE MergePages(_, _)
MergePages(c, pages) ==
    IF pages = <<>> THEN c ELSE MergePages(MergePage(c, Head(pages)), Tail(pages))

RECURSIVE UniqueAdjacentAcc(_, _)
UniqueAdjacentAcc(s, acc) ==
    IF s = <<>> THEN acc
    ELSE UniqueAdjacentAcc(Tail(s),
            IF acc # <<>> /\ acc[Len(acc)] = Head(s) THEN acc ELSE Append(acc, Head(s)))

\* (mutation) a dedup that only drops a value repeated right after itself
UniqueAdjacent(s) == UniqueAdjacentAcc(s, <<>>)

RECURSIVE UniqueAcc(_, _)
UniqueAcc(s, acc) ==
    IF s = <<>> THEN acc
    ELSE UniqueAcc(Tail(s), IF Head(s) \in Range(acc) THEN acc ELSE Append(acc, Head(s)))

\* list(dict.fromkeys(lst)): the first occurrence of every value, in order
Unique(s) == UniqueAcc(s, <<>>)

\* key = (faq.get("question", ""), faq.get("answer", ""))
FaqKey(faq) == <<faq.question, faq.answer>>

RECURSIVE UniqueFaqsByQuestionAcc(_, _)
UniqueFaqsByQuestionAcc(s, acc) ==
    IF s = <<>> THEN acc
    ELSE UniqueFaqsByQuestionAcc(Tail(s),
            IF Head(s).question \in {acc[i].question : i \in 1..Len(acc)}
            THEN acc ELSE Append(acc, Head(s)))

\* (mutation) the FAQ dedup keyed by the question alone
UniqueFaqsByQuestion(s) == UniqueFaqsByQuestionAcc(s, <<>>)

RECURSIVE UniqueFaqsAcc(_, _)
UniqueFaqsAcc(s, acc) ==
    IF s = <<>> THEN acc
    ELSE UniqueFaqsAcc(Tail(s),
            IF FaqKey(Head(s)) \in {FaqKey(acc[i]) : i \in 1..Len(acc)}
            THEN acc ELSE Append(acc, Head(s)))

\* the seen / unique_faqs loop
UniqueFaqs(s) == UniqueFaqsAcc(s, <<>>)

\* key = (blog.get("url", ""), blog.get("title", ""))
BlogKey(blog) == <<blog.url, blog.title>>

RECURSIVE UniqueBlogsAcc(_, _)
UniqueBlogsAcc(s, acc) ==
    IF s = <<>> THEN acc
    ELSE UniqueBlogsAcc(Tail(s),
            IF BlogKey(Head(s)) \in {BlogKey(acc[i]) : i \in 1..Len(acc)}
            THEN acc ELSE Append(acc, Head(s)))

\* the seen / unique_blogs loop
UniqueBlogs(s) == UniqueBlogsAcc(s, <<>>)

\* the dedup pass over compiled["compiled_content"]
Dedup(c) ==
    [c EXCEPT !.all_h1_titles = Unique(@),
              !.all_h2_titles = Unique(@),
              !.all_h3_titles = Unique(@),
              !.all_paragraphs = Unique(@),
              !.all_bullet_points = Unique(@),
              !.all_numbered_lists = Unique(@),
              !.all_call_to_actions = Unique(@),
              !.all_faq = UniqueFaqs(@),
              !.all_blogs = UniqueBlogs(@)]

\* the compiled dict scrape_website builds from the pages
Compile(pages) == Dedup(MergePages(EmptyCompiled(Len(pages)), pages))

CompileInit == compiled = EmptyCompiled(0)

\* the urls whose page was captured after a goto timeout
PartialUrls == {u \in Range(scraped_pages) : \E n \in 0..(Retries - 1) : <<u, n, "timeout_partial">> \in attempts}

\* scrape_website after scrape_site returned: the pages are compiled.  The
\* pages captured after a timeout have their whole content or none of it.
ScrapeWebsiteCompiles ==
    /\ cpc = "done"
    /\ \E cut \in {{}, PartialUrls} :
         compiled' = Compile([i \in 1..Len(returned) |->
                        extract_page_data(returned[i],
                            IF returned[i] \in cut THEN EmptyHtml
                            ELSE Html(site, returned[i]))])
    /\ cpc' = "compiled"
    /\ UNCHANGED <<avars, nvars, pvars>>
    /\ UNCHANGED <<site, max_pages, visited, rejected_urls, queue, scraped_pages,
                   urls_to_fetch, tasks, semaphore, ridx, returned, dispatched, attempts>>

Next ==
    \/ ScrapeSiteStart
    \/ StartBatch
    \/ LoopExit
    \/ \E i \in 1..Len(tasks) : TaskAcquire(i)
    \/ \E i \in 1..Len(tasks) : AttemptSucceeds(i)
    \/ \E i \in 1..Len(tasks) : AttemptFails(i)
    \/ \E i \in 1..Len(tasks) : AttemptFailsCloseRaises(i)
    \/ GatherReturns
    \/ ProcessResult
    \/ ScrapeWebsiteCompiles

\* no aggregation of a given page list is under way
AggIdle ==
    /\ agg_in = <<>>
    /\ agg_once = EmptyCompiled(0)
    /\ agg_twice = EmptyCompiled(0)
    /\ agg_pc = 0

------------------------------------------------------------------------------
(* Properties of one scrape_site run *)

\* the canonical form of a url: host lower-cased with a leading "www." removed,
\* query and fragment stripped, trailing slash removed
StripLeadingWww(h) == IF h # <<>> /\ h[1] = "www." THEN Tail(h) ELSE h
Canonical(url) ==
    [host |-> StripLeadingWww(LowerSeq(url.host)), path |-> url.path,
     slash |-> FALSE, query |-> FALSE, frag |-> FALSE]

Outcomes(url, n) == {a[3] : a \in {x \in attempts : x[1] = url /\ x[2] = n}}
Succeeded(url) == \E n \in 0..(Retries - 1) : Outcomes(url, n) \cap {"ok", "timeout_partial"} # {}
FailedBoth(url) == \A n \in 0..(Retries - 1) : Outcomes(url, n) \cap {"error", "timeout_failed"} # {}
TimedOutBoth(url) == \A n \in 0..(Retries - 1) : "timeout_failed" \in Outcomes(url, n)
IndexIn(s, x) == CHOOSE i \in 1..Len(s) : s[i] = x

\* C1: the number of collected page records never exceeds max_pages, and the
\* list scrape_site returns has at most max_pages entries.
C1_CollectedWithinMaxPages ==
    /\ Len(scraped_pages) <= max_pages
    /\ cpc = "done" => Len(returned) <= max_pages

\* C1 witness: a crawl that ended at its page budget, after a batch of several
\* fetches, with discovered urls still queued
C1_Witness ==
    /\ cpc = "done"
    /\ max_pages >= 2
    /\ Len(returned) = max_pages
    /\ queue # <<>>

\* C2: no url is handed to scrape_and_extract twice, and a url in visited is
\* never in the queue again, however often links rediscover it.
C2_NoUrlFetchedTwice ==
    /\ NoDup(dispatched)
    /\ Range(queue) \cap visited = {}
    /\ NoDup(queue)

\* C2 witness: a url whose fetch failed was found again through a link of
\* another page (a third rejected_urls entry), and a collected url was found
\* again too; each was dispatched once.
C2_Witness ==
    /\ cpc = "done"
    /\ \E u \in visited :
         FailedBoth(u) /\ Count(rejected_urls, u) >= 3 /\ Count(dispatched, u) = 1
    /\ \E v \in Range(scraped_pages) :
         v \in Range(rejected_urls) /\ Count(dispatched, v) = 1

\* C7: a failed fetch never aborts the crawl: scrape_site is never left by an
\* exception, after each batch every page whose fetch succeeded is collected,
\* the loop ends only with the queue empty or the budget reached, and the
\* collected pages are what is returned.
C7_FetchFailureNeverAborts ==
    /\ cpc # "aborted"
    /\ cpc \in {"loop", "done"} => \A u \in visited : Succeeded(u) => u \in Range(scraped_pages)
    /\ cpc = "done" =>
         /\ returned = scraped_pages
         /\ queue = <<>> \/ Len(scraped_pages) >= max_pages

\* C7 witness: in one batch a fetch ended in an error result, another raised out
\* of its coroutine and a third succeeded; a page dispatched after them was
\* collected and returned.
C7_Witness ==
    /\ cpc = "done"
    /\ \E u, v, w \in visited :
         /\ FailedBoth(u)
         /\ \E n \in 0..(Retries - 1) : "error_close" \in Outcomes(v, n)
         /\ w \in Range(returned)
         /\ IndexIn(dispatched, w) > IndexIn(dispatched, u)
         /\ IndexIn(dispatched, w) > IndexIn(dispatched, v)

\* C8: a url whose fetch timed out on both attempts is in rejected_urls exactly
\* once and has no page record.
C8_TimeoutRejectedOnce ==
    cpc = "done" =>
        \A u \in visited :
            TimedOutBoth(u) => Count(rejected_urls, u) = 1 /\ u \notin Range(scraped_pages)

\* C9: no two different urls of visited and queue share a canonical form, and
\* the queue holds no url twice.
C9_FrontierCanonicalUnique ==
    /\ NoDup(queue)
    /\ \A u, v \in visited \cup Range(queue) : Canonical(u) = Canonical(v) => u = v

\* every fetch attempt made so far got the whole page
AllOk == \A a \in attempts : a[3] = "ok"

\* the url string ends with "/blog/post-1"
EndsWithBlogPost1(url) ==
    /\ ~url.slash /\ ~url.query /\ ~url.frag
    /\ Len(url.path) >= 2
    /\ url.path[Len(url.path) - 1] = "blog"
    /\ url.path[Len(url.path)] = "post-1"

\* C16: the crawl of the 3-page site (home linking to /about and /blog/post-1,
\* which link nowhere; /blog/post-1 with an article block), every fetch
\* succeeding, compiles to 3 pages and exactly one blog record, whose url ends
\* with /blog/post-1, and leaves rejected_urls empty.
C16_ThreePageSite ==
    (cpc = "compiled" /\ site = 3 /\ max_pages >= 3 /\ AllOk) =>
        /\ compiled.total_pages_scraped = 3
        /\ Len(compiled.all_blogs) = 1
        /\ EndsWithBlogPost1(compiled.all_blogs[1].url)
        /\ rejected_urls = <<>>

\* C16 witness: the 3-page site was crawled without a failed fetch and compiled
C16_Witness ==
    /\ cpc = "compiled"
    /\ site = 3
    /\ max_pages >= 3
    /\ AllOk
    /\ Cardinality(visited) = 3
    /\ Len(compiled.all_blogs) = 1

\* C18: there are at least as many visited urls as collected page records: the
\* records belong to different urls, all of them visited.
C18_VisitedCoversCollected ==
    /\ Len(scraped_pages) <= Cardinality(visited)
    /\ Range(scraped_pages) \subseteq visited
    /\ NoDup(scraped_pages)

\* C18 witness: a crawl ended with several pages collected and more urls
\* visited than collected
C18_Witness ==
    /\ cpc = "done"
    /\ Len(returned) >= 2
    /\ Cardinality(visited) > Len(returned)

RaisedBoth(url) == \A n \in 0..(Retries - 1) : "error" \in Outcomes(url, n)

\* C19: a url whose fetch raised an exception on both attempts is in
\* rejected_urls exactly once, has no page record and was dispatched once.
C19_ExceptionRejectedOnce ==
    cpc = "done" =>
        \A u \in visited :
            RaisedBoth(u) =>
                /\ Count(rejected_urls, u) = 1
                /\ u \notin Range(scraped_pages)
                /\ Count(dispatched, u) = 1

\* the links get_links gives for the whole page at url, nothing visited yet
LinksOfPage(s, url) ==
    get_links(Hrefs(s, url), normalize_domain(BaseUrl(s).host), {}).links

RECURSIVE ReachableFrom(_, _)
\* the urls reachable by links from the urls of S on site s, S included
ReachableFrom(s, S) ==
    LET T == S \cup UNION {LinksOfPage(s, u) : u \in S}
    IN  IF T = S THEN S ELSE ReachableFrom(s, T)

\* the seed and the eligible urls reachable from it
Reachable(s) == ReachableFrom(s, {normalize_url(BaseUrl(s))})

InFlight == {i \in 1..Len(tasks) : tasks[i].st = "in"}

\* C14: at most 20 fetches are inside the guarded section, and the permits
\* taken are exactly those of the fetches inside: every fetch that returned or
\* failed has given its permit back.
C14_AtMostTwentyInFlight ==
    /\ Cardinality(InFlight) <= 20
    /\ semaphore >= 0
    /\ semaphore = SemaphoreLimit - Cardinality(InFlight)

\* C14 witness: 20 fetches are in flight while discovered urls wait in the
\* queue and the page budget would allow more
C14_Witness ==
    /\ site = WideSite
    /\ Cardinality(InFlight) = 20
    /\ queue # <<>>
    /\ max_pages - Len(scraped_pages) > 20

\* the links among those of a page, in the order of the hrefs that give them
InDocumentOrder(hrefs, links) ==
    Unique(SelectSeq([i \in 1..Len(hrefs) |-> LinkOf(hrefs[i])], LAMBDA u : u \in links))

\* C24: the links of a collected page are appended to the queue in the order
\* of the page's hrefs, and a batch takes its urls from the head of the queue
\* in queue order.
C24_DiscoveryOrderFifo ==
    [][/\ (cpc = "process" /\ tasks[ridx].result.kind = "ok") =>
             queue' = EnqueueLinks(InDocumentOrder(Hrefs(site, tasks[ridx].url),
                                                   Range(tasks[ridx].result.links)),
                                   queue, Len(scraped_pages) + 1, visited)
       /\ (cpc = "loop" /\ cpc' = "gather") =>
             \E k \in 0..Len(queue) :
                /\ queue' = SubSeq(queue, k + 1, Len(queue))
                /\ urls_to_fetch' = SelectSeq(SubSeq(queue, 1, k), LAMBDA u : u \notin visited)
      ]_cvars

\* the hrefs of the page at url whose raw value contains a '#'
FragmentHrefs(s, url) == {h \in Range(Hrefs(s, url)) : h.url.frag}

\* url is the seed of site s or the link of an href without '#' of one of its pages
LinkedWithoutFragment(s, url) ==
    \/ url = normalize_url(BaseUrl(s))
    \/ \E p \in Reachable(s) : \E h \in Range(Hrefs(s, p)) : ~h.url.frag /\ LinkOf(h) = url

\* the url was fetched with its whole content
FetchedWhole(url) == \E n \in 0..(Retries - 1) : <<url, n, "ok">> \in attempts

\* C25: for every href with a '#' of a collected page, the url derived from it
\* is neither queued nor visited (unless an href without '#' leads to it too),
\* and once the whole page was read the href is in rejected_urls, as written or
\* as derived.
C25_FragmentHrefsIneligible ==
    \A p \in Range(scraped_pages) : \A h \in FragmentHrefs(site, p) :
        /\ ~LinkedWithoutFragment(site, LinkOf(h)) =>
               LinkOf(h) \notin Range(queue) \cup visited
        /\ FetchedWhole(p) =>
               h.url \in Range(rejected_urls) \/ LinkOf(h) \in Range(rejected_urls)

\* C26: every url queued or visited has the host of the base url, both
\* lower-cased and without one leading "www.".
C26_OnlyLeadingWwwStripped ==
    \A u \in visited \cup Range(queue) :
        StripLeadingWww(LowerSeq(u.host)) = StripLeadingWww(LowerSeq(BaseUrl(site).host))

\* C28: when scrape_site has returned, every visited url is the url of a
\* returned page record or is in rejected_urls.
C28_VisitedAccountedFor ==
    cpc = "done" =>
        \A u \in visited : u \in Range(returned) \/ u \in Range(rejected_urls)

\* C29: no url of a collected page record is in rejected_urls.
C29_CollectedNeverRejected ==
    Range(scraped_pages) \cap Range(rejected_urls) = {}

\* C27: when every fetch task ends, the loop of scrape_site ends, and it ends
\* with the queue empty or with max_pages page records collected.
C27_LoopTerminates ==
    <>(cpc = "done" /\ (queue = <<>> \/ Len(scraped_pages) >= max_pages))

\* C27 witness: the crawl of the endless site ended at its page budget, after a
\* fetch that failed once and succeeded when retried
C27_Witness ==
    /\ site = EndlessSite
    /\ cpc = "done"
    /\ max_pages >= 3
    /\ Len(returned) = max_pages
    /\ \E u \in Range(returned) : "error" \in Outcomes(u, 0)

------------------------------------------------------------------------------
(* ResearchState and its reducers (agents/schemas.py) *)

Empty == "Empty"     \* a value that is not None but falsy: "", [], {}
Blank == "Blank"     \* a non-empty string of white space
Truthy(v) == v \notin {None, Empty}

Fields == {"company_name", "scraped_summary", "website_content",
           "website_content_individual", "compatibility_report", "brand_guidelines",
           "periodic_table_report", "seo_keywords", "prompt_report",
           "unique_competitors", "ranking_analysis_output", "visibility_report",
           "brand_metrics", "similar_web_data", "audit_report",
           "niche", "industry", "goals", "usp", "error"}

\* (mutation) a keep-existing reducer that prefers the new value
TakeNew(existing, new) == IF Truthy(new) THEN new ELSE existing

\* reduce_company_name, reduce_website_content, ..., reduce_scraped_summary:
\* return existing or new
KeepExisting(existing, new) == IF Truthy(existing) THEN existing ELSE new

\* the reduce_error the module ends up with: the second definition (line 87)
\* replaces the first (line 63); return existing or new
reduce_error(existing, new) == IF Truthy(existing) THEN existing ELSE new

\* the reducer each field is annotated with in ResearchState
Reduce(f, existing, new) ==
    IF f = "error" THEN reduce_error(existing, new) ELSE KeepExisting(existing, new)

\* initial_state of run_workflow, after ResearchStateModel(...).dict()
InitialState(c) == [f \in Fields |-> IF f = "company_name" THEN c ELSE None]

------------------------------------------------------------------------------
(* The workflow graph (ResearchController._setup_workflow) *)

Nodes == {"scrape_website", "compatibility_analysis", "brand_identity",
          "periodic_table_analysis", "keyword_research", "prompt_page_analysis",
          "industry_analysis", "similar_web_analysis", "visibility_analysis",
          "brand_analytics", "audit_analysis"}

EntryPoint == "scrape_website"

Edges == { <<"scrape_website", "audit_analysis">>,
           <<"scrape_website", "compatibility_analysis">>,
           <<"scrape_website", "brand_identity">>,
           <<"brand_identity", "keyword_research">>,
           <<"scrape_website", "periodic_table_analysis">>,
           <<"keyword_research", "prompt_page_analysis">>,
           <<"prompt_page_analysis", "industry_analysis">>,
           <<"industry_analysis", "similar_web_analysis">>,
           <<"periodic_table_analysis", "visibility_analysis">>,
           <<"visibility_analysis", "brand_analytics">>,
           <<"industry_analysis", "brand_analytics">>,
           <<"similar_web_analysis", "brand_analytics">> }

\* Each add_edge(a, b) with a single source makes b run in the superstep after
\* any superstep in which a ran.
Triggered(ran) == {e[2] : e \in {x \in Edges : x[1] \in ran}}

Upstream(n) == {e[1] : e \in {x \in Edges : x[2] = n}}

------------------------------------------------------------------------------
(* The node callables.  Each gets the state of the superstep (a dict of its  *)
(* own), assigns to some keys and returns the whole dict, or raises.         *)
(* NodeOutcomes(n, s) is the set of ways node n can end on input s:          *)
(* [raises, out, failed, crawl]; failed says the node set state['error']     *)
(* itself, crawl how the scrape_site call the node made ended ("none": no    *)
(* such call).                                                               *)

Returns(out) == [raises |-> FALSE, out |-> out, failed |-> FALSE, crawl |-> "none"]
Fails(s, msg) ==
    [raises |-> FALSE, out |-> [s EXCEPT !["error"] = msg], failed |-> TRUE, crawl |-> "none"]
Raises(s) == [raises |-> TRUE, out |-> s, failed |-> FALSE, crawl |-> "none"]

\* how the call of scrape_site ends: it returns its pages, or it raises (the
\* browser cannot be launched, the output file cannot be written, ...)
CrawlOutcomes == {"pages", "raises"}

\* (mutation) the except clause of scrape_website returns the state as it is
CrawlFailureSwallowed(s) == s

\* the except clause of scrape_website:
\* state["error"] = f"Scraping failed: {str(e)}"; return state
CrawlFailure(s) == [s EXCEPT !["error"] = "Scraping failed"]

\* ScraperAgent.scrape_website(state), with scrape_site ending in crawl
scrape_website(s, crawl) ==
    IF s["company_name"] \in {Empty, Blank}
    THEN [out |-> [s EXCEPT !["error"] = "No company_name provided"], crawl |-> "none"]
    ELSE IF crawl = "raises"
         THEN [out |-> CrawlFailure(s), crawl |-> crawl]
         ELSE [out |-> [s EXCEPT !["website_content"] = "compiled",
                                 !["scraped_summary"] = "summary"],
               crawl |-> crawl]

\* ResearchController.run_scrape_website_node around ScraperAgent.scrape_website
\* without website_content it does state['error'] = state.get('error', ...),
\* and the key is always there
run_scrape_website_node(s) ==
    IF ~Truthy(s["company_name"])
    THEN {Fails(s, "Company name not found in state for scraping.")}
    ELSE { [raises |-> FALSE,
            out |-> scrape_website(s, c).out,
            failed |-> ~Truthy(scrape_website(s, c).out["website_content"]),
            crawl |-> scrape_website(s, c).crawl] : c \in CrawlOutcomes }

\* run_audit_node / AuditAgent.run_audit: no try block; website_content is
\* subscripted before anything is tested
run_audit_node(s) ==
    IF s["website_content"] = None THEN {Raises(s)}
    ELSE IF ~Truthy(s["company_name"])
         THEN {Fails(s, "Missing company name, website content, or BASE_URL for audit.")}
         ELSE {Returns([s EXCEPT !["audit_report"] = "audit"]), Raises(s)}

\* CompatibilityAgent.score_pages_in_json
score_pages_in_json(s) ==
    IF ~Truthy(s["website_content_individual"]) THEN {Returns(s)}
    ELSE { Returns([s EXCEPT !["compatibility_report"] = "compatibility"]),
           Fails(s, "JSON decoding error in compatibility_agent"),
           Raises(s) }

\* brand_identity_agent: generate_content is called outside the try block
brand_identity_agent(s) ==
    IF ~Truthy(s["website_content"])
    THEN {Fails(s, "No website content available for brand analysis")}
    ELSE { Returns([s EXCEPT !["brand_guidelines"] = "guidelines", !["niche"] = n,
                             !["industry"] = "industry", !["goals"] = "goals",
                             !["usp"] = "usp"]) : n \in {"finance", Empty} }
         \cup { Fails(s, "Error parsing JSON response"), Raises(s) }

\* PeriodicTableAgent.analyze
periodic_table_analyze(s) ==
    IF ~Truthy(s["website_content"])
    THEN {Fails(s, "No website content available for analysis.")}
    ELSE { Returns([s EXCEPT !["periodic_table_report"] = "periodic_table"]),
           Fails(s, "Error in periodic table analysis") }

\* KeywordResearchAgent.run_research_node; generate_keywords returns [] on error
run_research_node(s) ==
    { Returns([s EXCEPT !["seo_keywords"] = k]) : k \in {"keywords", Empty} }
    \cup { Fails(s, "Keyword research failed") }

\* SEOpromptAgent.run_prompt_node: no try block around the LLM call
run_prompt_node(s) ==
    IF ~Truthy(s["website_content"]) \/ ~Truthy(s["seo_keywords"]) THEN {Returns(s)}
    ELSE { Returns([s EXCEPT !["prompt_report"] = "prompt_report",
                             !["unique_competitors"] = "competitors"]),
           Returns([s EXCEPT !["prompt_report"] = Empty,
                             !["unique_competitors"] = Empty]),
           Raises(s) }

\* IndustryAgent.run_industry_analysis: state["prompt_report"]["analysis"]
\* raises inside the try block when prompt_report is None or {}
run_industry_analysis(s) ==
    IF ~Truthy(s["prompt_report"]) THEN {Fails(s, "Industry analysis error")}
    ELSE { Returns([s EXCEPT !["ranking_analysis_output"] = "ranking"]),
           Returns(s),
           Fails(s, "Industry analysis error") }

\* ResearchController.run_similar_web_analysis_node around
\* SimilarWebTrafficAgent.analyze, which sets
\* state["error"] = reduce_error(state.get("error"), error_msg)
run_similar_web_analysis_node(s) ==
    IF ~Truthy(s["company_name"])
    THEN {Fails(s, "Company name not found in state for SimilarWeb analysis.")}
    ELSE { Returns([s EXCEPT !["similar_web_data"] = "traffic"]),
           Fails(s, IF Truthy(s["error"]) THEN s["error"]
                    ELSE "Error in SimilarWeb traffic analysis") }

\* AEOEvaluatorAgent.run_visibility_node: no try block
run_visibility_node(s) ==
    IF ~Truthy(s["periodic_table_report"]) THEN {Returns(s)}
    ELSE {Returns([s EXCEPT !["visibility_report"] = "visibility"]), Raises(s)}

\* BrandAnalyticsAgent.run_brand_analytics_node: the metrics are what the
\* model answers this time
run_brand_analytics_node(s) ==
    { Returns([s EXCEPT !["brand_metrics"] = m]) : m \in {"metricsA", "metricsB", Empty} }
    \cup { Fails(s, "Brand analytics error") }

NodeOutcomes(n, s) ==
    CASE n = "scrape_website" -> run_scrape_website_node(s)
      [] n = "audit_analysis" -> run_audit_node(s)
      [] n = "compatibility_analysis" -> score_pages_in_json(s)
      [] n = "brand_identity" -> brand_identity_agent(s)
      [] n = "periodic_table_analysis" -> periodic_table_analyze(s)
      [] n = "keyword_research" -> run_research_node(s)
      [] n = "prompt_page_analysis" -> run_prompt_node(s)
      [] n = "industry_analysis" -> run_industry_analysis(s)
      [] n = "similar_web_analysis" -> run_similar_web_analysis_node(s)
      [] n = "visibility_analysis" -> run_visibility_node(s)
      [] OTHER -> run_brand_analytics_node(s)

------------------------------------------------------------------------------
(* run_workflow: the compiled graph run superstep by superstep *)

NoWrites == [n \in {} |-> None]

RECURSIVE ApplyWrites(_, _, _)
\* the returned dicts of a superstep merged into the state, one node after the
\* other, every key through its reducer
ApplyWrites(s, order, w) ==
    IF order = <<>> THEN s
    ELSE ApplyWrites([f \in Fields |-> Reduce(f, s[f], w[Head(order)][f])],
                     Tail(order), w)

\* the returns of a superstep that carry another value for a field than the
\* non-empty value the state holds for it
Overwrites(s, w, ns) ==
    { x \in { <<f, s[f], w[n][f]>> : f \in Fields, n \in ns } :
        Truthy(x[2]) /\ x[2] # x[3] }

\* return {"error": error_msg}: the dict run_workflow returns from its except
ErrorOnly == [f \in Fields |-> IF f = "error" THEN "Error in research workflow" ELSE None]

\* no answer sent yet
NoResponse == [status |-> 0, body |-> InitialState(None)]

\* (mutation) the endpoint does not look at the error
ErrorIgnored(result) == FALSE

\* if result.get("error")
ResultHasError(result) == Truthy(result["error"])

\* HTTPException(status_code=500, detail=...), raised in the try block and
\* raised again, as a 500, by its except clause
FailureResponse(result) ==
    [status |-> 500, body |-> [f \in Fields |-> IF f = "error" THEN result["error"] ELSE None]]

\* return result
SuccessResponse(result) == [status |-> 200, body |-> result]

PipeInit ==
    /\ company_name = None
    /\ state = InitialState(None)
    /\ active = {}
    /\ writes = NoWrites
    /\ step = 0
    /\ ppc = "idle"
    /\ final = InitialState(None)
    /\ completed = {}
    /\ runlog = {}
    /\ failures = {}
    /\ attempted = {}
    /\ raised = {}
    /\ response = NoResponse
    /\ crawl_raised = FALSE

\* run_workflow(company_name) up to app.ainvoke(initial_state)
StartWorkflow ==
    /\ ppc = "idle"
    /\ \E c \in {Empty, Blank, "example.com"} :
         /\ company_name' = c
         /\ state' = InitialState(c)
    /\ active' = {EntryPoint}
    /\ writes' = NoWrites
    /\ step' = 1
    /\ ppc' = "running"
    /\ UNCHANGED <<final, completed, runlog, failures, attempted, raised, response,
                   crawl_raised>>
    /\ UNCHANGED <<cvars, wvars, avars, nvars>>

\* a node of the superstep runs on the superstep's state and returns
NodeReturns(n) ==
    /\ ppc = "running"
    /\ n \in active \ DOMAIN writes
    /\ \E r \in NodeOutcomes(n, state) :
         /\ ~r.raises
         /\ writes' = (n :> r.out) @@ writes
         /\ failures' = IF r.failed THEN failures \cup {<<step, n, r.out["error"]>>}
                      ELSE failures
         /\ crawl_raised' = (crawl_raised \/ r.crawl = "raises")
    /\ runlog' = runlog \cup {<<step, n>>}
    /\ UNCHANGED <<company_name, state, active, step, ppc, final, completed, attempted,
                   raised, response>>
    /\ UNCHANGED <<cvars, wvars, avars, nvars>>

\* a node raises: ainvoke raises, the superstep's writes are dropped, and
\* run_workflow's except clause returns the error-only dict
NodeRaises(n) ==
    /\ ppc = "running"
    /\ n \in active \ DOMAIN writes
    /\ \E r \in NodeOutcomes(n, state) : r.raises
    /\ raised' = raised \cup {n}
    /\ runlog' = runlog \cup {<<step, n>>}
    /\ ppc' = "finished"
    /\ final' = ErrorOnly
    /\ UNCHANGED <<company_name, state, active, writes, step, completed, failures,
                   attempted, response, crawl_raised>>
    /\ UNCHANGED <<cvars, wvars, avars, nvars>>

\* every node of the superstep has returned: the writes are merged, the nodes
\* triggered by the ones that ran form the next superstep; with none left,
\* ainvoke returns the state and run_workflow returns it
EndSuperstep ==
    /\ ppc = "running"
    /\ DOMAIN writes = active
    /\ \E order \in Orderings(active) :
         LET merged == ApplyWrites(state, order, writes)
         IN  /\ state' = merged
             /\ IF Triggered(active) = {}
                THEN ppc' = "finished" /\ final' = merged
                ELSE ppc' = "running" /\ final' = final
    /\ attempted' = attempted \cup Overwrites(state, writes, active)
    /\ completed' = completed \cup active
    /\ active' = Triggered(active)
    /\ writes' = NoWrites
    /\ step' = step + 1
    /\ UNCHANGED <<company_name, runlog, failures, raised, response, crawl_raised>>
    /\ UNCHANGED <<cvars, wvars, avars, nvars>>

\* run_research (POST /run) after run_workflow has returned
RunResearchResponds ==
    /\ ppc = "finished"
    /\ response = NoResponse
    /\ response' = IF ResultHasError(final) THEN FailureResponse(final)
                   ELSE SuccessResponse(final)
    /\ UNCHANGED <<company_name, state, active, writes, step, ppc, final, completed,
                   runlog, failures, attempted, raised, crawl_raised>>
    /\ UNCHANGED <<cvars, wvars, avars, nvars>>

PipeNext ==
    \/ StartWorkflow
    \/ \E n \in Nodes : NodeReturns(n)
    \/ \E n \in Nodes : NodeRaises(n)
    \/ EndSuperstep
    \/ RunResearchResponds

------------------------------------------------------------------------------
(* Properties of one run_workflow call *)

NonErrorFields == Fields \ {"error"}
HasRun(n) == \E k \in 1..step : <<k, n>> \in runlog
LastFailureStep == CHOOSE k \in {x[1] : x \in failures} : \A x \in failures : x[1] <= k

\* C3: when a field other than error holds a non-empty value and a later stage
\* returns a different value for it, the merged state and the state
\* run_workflow returns hold the first value.
C3_FirstWriteWins ==
    /\ \A x \in attempted : x[1] \in NonErrorFields => state[x[1]] = x[2]
    /\ ppc = "finished" =>
         \A x \in attempted : x[1] \in NonErrorFields => final[x[1]] = x[2]

\* C3 witness: the run is over and a later brand_analytics run had returned
\* other metrics than the ones the state held
C3_Witness ==
    /\ ppc = "finished"
    /\ <<"brand_metrics", "metricsA", "metricsB">> \in attempted
    /\ final["brand_metrics"] = "metricsA"

\* C4: when stages failed one after the other, each setting error, the returned
\* state's error is the one set by the stage that failed last.
C4_ErrorLastWriteWins ==
    (/\ ppc = "finished"
     /\ raised = {}
     /\ Cardinality({x[1] : x \in failures}) >= 2
     /\ Cardinality({x \in failures : x[1] = LastFailureStep}) = 1)
    => \A x \in failures : x[1] = LastFailureStep => final["error"] = x[3]

\* C5: every node that has run in the current superstep started after all of
\* its upstream nodes had completed and had their writes merged into the state
\* (brand_analytics after visibility_analysis, industry_analysis and
\* similar_web_analysis).
C5_JoinWaitsForAllUpstream ==
    \A n \in DOMAIN writes : Upstream(n) \subseteq completed

\* C6: when a stage raised, the returned state has error set, keeps every field
\* the merged state held, and the stages downstream of the raising one ran.
C6_RaisingStageKeepsPartialResults ==
    (ppc = "finished" /\ raised # {}) =>
        /\ Truthy(final["error"])
        /\ \A f \in NonErrorFields : Truthy(state[f]) => final[f] = state[f]
        /\ \A n \in Triggered(raised) : HasRun(n)

\* C11: given an empty company_name the run is cut short: no node other than
\* scrape_website is ever invoked, and the returned state carries the error.
C11_EmptyTargetShortCircuits ==
    (ppc # "idle" /\ company_name = Empty) =>
        /\ \A x \in runlog : x[2] = EntryPoint
        /\ ppc = "finished" => Truthy(final["error"])

\* C12: the /run endpoint answers with a failure status exactly when the state
\* run_workflow returned has a non-empty error, and with that state otherwise.
C12_RunFailsIffError ==
    response # NoResponse =>
        /\ response.status = 500 <=> Truthy(final["error"])
        /\ response.status # 500 => response.status = 200 /\ response.body = final

\* C12 witness: a run in which no node raised ended with error set by a node
\* and with other fields filled, and the endpoint answered 500
C12_Witness ==
    /\ response.status = 500
    /\ raised = {}
    /\ Truthy(final["brand_metrics"])
    /\ Truthy(final["error"])

\* C13: when scrape_site raised, the scrape_website node did not raise: it
\* returned the state with error set and website_content unset, and the merged
\* state holds them so.
C13_CrawlFailureRecorded ==
    crawl_raised =>
        /\ EntryPoint \notin raised
        /\ EntryPoint \in DOMAIN writes =>
              /\ Truthy(writes[EntryPoint]["error"])
              /\ writes[EntryPoint]["website_content"] = None
        /\ step >= 2 => Truthy(state["error"]) /\ state["website_content"] = None

\* C13 witness: scrape_site raised and the node's return has been merged
C13_Witness ==
    /\ crawl_raised
    /\ step = 2
    /\ state["error"] = "Scraping failed"

RECURSIVE DownstreamFrom(_)
\* the nodes reachable from the nodes of S along the edges, S included
DownstreamFrom(S) ==
    IF Triggered(S) \subseteq S THEN S ELSE DownstreamFrom(S \cup Triggered(S))

\* the nodes downstream of node n
Downstream(n) == DownstreamFrom(Triggered({n}))

C21_SetFieldNeverChanges ==
    [][\A f \in NonErrorFields : state[f] # None => state'[f] = state[f]]_pvars

\* C22: no node is executed in more than one superstep of a run.
C22_EachStageAtMostOnce ==
    \A n \in Nodes : Cardinality({x \in runlog : x[2] = n}) <= 1

\* C23: when a superstep of two or more nodes is merged, every field other than
\* error that was None before the superstep and for which one of the nodes
\* returned a value holds that value in the merged state.
C23_SiblingWritesKept ==
    [][(/\ ppc = "running"
        /\ DOMAIN writes = active
        /\ Cardinality(active) >= 2
        /\ step' = step + 1)
       => \A n \in active : \A f \in NonErrorFields :
             (state[f] = None /\ writes[n][f] # None) => state'[f] = writes[n][f]]_pvars

------------------------------------------------------------------------------
(* The aggregation of scrape_website applied to a given list of page records *)

\* every sequence over S of length at most n
SeqsUpTo(S, n) == UNION {[1..k -> S] : k \in 0..n}

\* page records: the pages of the 3-page site, the blog post again with other
\* paragraphs and with another title, and a page without content
AggPageSet ==
    { extract_page_data(u, Html(3, u)) :
        u \in {Home(H_example), About(H_example), Post1(H_example)} }
    \cup
    { extract_page_data(Post1(H_example),
          [Html(3, Post1(H_example)) EXCEPT !.article_paragraphs = <<"A long story, edited.">>]),
      extract_page_data(Post1(H_example),
          [Html(3, Post1(H_example)) EXCEPT !.h1 = <<"Post 1, retitled">>]),
      extract_page_data(PageA(H_example), EmptyHtml) }

AggInit ==
    /\ agg_in \in SeqsUpTo(AggPageSet, AggMaxPages)
    /\ agg_once = EmptyCompiled(0)
    /\ agg_twice = EmptyCompiled(0)
    /\ agg_pc = 0

\* the merge loop and the dedup pass of scrape_website over the pages
AggregateOnce ==
    /\ agg_pc = 0
    /\ agg_once' = Compile(agg_in)
    /\ agg_pc' = 1
    /\ UNCHANGED <<agg_in, agg_twice>>
    /\ UNCHANGED <<cvars, wvars, nvars, pvars>>

\* the merge loop over the same pages and the dedup pass, applied to the
\* aggregate the first pass gave
AggregateAgain ==
    /\ agg_pc = 1
    /\ agg_twice' = Dedup(MergePages(agg_once, agg_in))
    /\ agg_pc' = 2
    /\ UNCHANGED <<agg_in, agg_once>>
    /\ UNCHANGED <<cvars, wvars, nvars, pvars>>

\* C17: merging the same pages into the aggregate and deduplicating a second
\* time changes none of its lists, and neither does the dedup pass alone:
\* the FAQ, blog and scalar lists, and their counts, are those of the first pass.
C17_AggregateDedupIdempotent ==
    agg_pc = 2 =>
        /\ agg_twice = agg_once
        /\ Dedup(agg_once) = agg_once

\* C17 witness: two passes were made over two pages of which the first pass
\* had dropped repeated FAQs, a repeated blog and repeated titles
C17_Witness ==
    /\ agg_pc = 2
    /\ Len(agg_in) = 2
    /\ LET merged == MergePages(EmptyCompiled(2), agg_in)
       IN  /\ Len(agg_once.all_faq) < Len(merged.all_faq)
           /\ Len(agg_once.all_faq) >= 2
           /\ Len(agg_once.all_h2_titles) < Len(merged.all_h2_titles)
    /\ agg_twice.all_faq = agg_once.all_faq

\* where the entries of field f stand in the pages: <<page index, index in the
\* page's list>>
Occurrences(pages, f) ==
    UNION {{<<i, j>> : j \in 1..Len(pages[i][f])} : i \in 1..Len(pages)}

\* occurrence p comes before occurrence q in the page list
Earlier(p, q) == p[1] < q[1] \/ (p[1] = q[1] /\ p[2] < q[2])

\* the first occurrence of key k in field f of the pages
FirstOccurrence(pages, f, Key(_), k) ==
    CHOOSE p \in Occurrences(pages, f) :
        /\ Key(pages[p[1]][f][p[2]]) = k
        /\ \A q \in Occurrences(pages, f) :
              Key(pages[q[1]][f][q[2]]) = k => ~Earlier(q, p)

\* out holds every key of field f of the pages exactly once, no other key, in
\* the order in which the keys are first seen
DedupedUnion(out, pages, f, Key(_)) ==
    /\ \A i, j \in 1..Len(out) : Key(out[i]) = Key(out[j]) => i = j
    /\ {Key(out[i]) : i \in 1..Len(out)}
         = {Key(pages[p[1]][f][p[2]]) : p \in Occurrences(pages, f)}
    /\ \A i, j \in 1..Len(out) :
          i < j => Earlier(FirstOccurrence(pages, f, Key, Key(out[i])),
                           FirstOccurrence(pages, f, Key, Key(out[j])))

\* C30: every list of the aggregate holds each key of the pages' lists exactly
\* once, no other key, in first-seen order over the page list (headings,
\* paragraphs, bullets, numbered items and CTAs by value, FAQs by (question,
\* answer), blogs by (url, title)), and total_pages_scraped is the number of
\* pages.
C30_AggregateIsDedupedUnion ==
    agg_pc >= 1 =>
        /\ agg_once.total_pages_scraped = Len(agg_in)
        /\ DedupedUnion(agg_once.all_h1_titles, agg_in, "h1", LAMBDA x : x)
        /\ DedupedUnion(agg_once.all_h2_titles, agg_in, "h2", LAMBDA x : x)
        /\ DedupedUnion(agg_once.all_h3_titles, agg_in, "h3", LAMBDA x : x)
        /\ DedupedUnion(agg_once.all_paragraphs, agg_in, "paragraphs", LAMBDA x : x)
        /\ DedupedUnion(agg_once.all_bullet_points, agg_in, "bullet_points", LAMBDA x : x)
        /\ DedupedUnion(agg_once.all_numbered_lists, agg_in, "numbered_lists", LAMBDA x : x)
        /\ DedupedUnion(agg_once.all_call_to_actions, agg_in, "call_to_actions", LAMBDA x : x)
        /\ DedupedUnion(agg_once.all_faq, agg_in, "faq", FaqKey)
        /\ DedupedUnion(agg_once.all_blogs, agg_in, "blog", BlogKey)

\* C30 witness: the aggregate of two pages with the same url and different
\* titles holds both blogs and one copy of the paragraph they share
C30_Witness ==
    /\ agg_pc >= 1
    /\ Len(agg_in) = 2
    /\ Len(agg_once.all_blogs) = 2
    /\ agg_once.all_blogs[1].url = agg_once.all_blogs[2].url
    /\ Len(agg_once.all_h1_titles) = 2
    /\ Len(agg_once.all_paragraphs) = 1

------------------------------------------------------------------------------
(* normalize_url applied to two urls *)

NormHosts == {H_example, H_www, H_upper}
NormPaths == {<<>>, <<"a">>}
NormUrls ==
    [host : NormHosts, path : NormPaths, slash : BOOLEAN, query : BOOLEAN, frag : BOOLEAN]

NormIdle == nu_in = <<>> /\ nu_out = <<>>

NormInit == nu_in \in NormUrls \X NormUrls /\ nu_out = <<>>

ApplyNormalize ==
    /\ nu_out = <<>>
    /\ nu_in # <<>>
    /\ nu_out' = <<normalize_url(nu_in[1]), normalize_url(nu_in[2])>>
    /\ UNCHANGED nu_in
    /\ UNCHANGED <<cvars, wvars, avars, pvars>>

\* the urls differ at most by a fragment, a trailing slash or a "www." host prefix
DifferOnlyByFragSlashWww(a, b) ==
    /\ StripLeadingWww(a.host) = StripLeadingWww(b.host)
    /\ a.path = b.path
    /\ a.query = b.query

\* C10: urls that differ only by a fragment, a trailing slash or a "www." host
\* prefix have the same normalize_url.
C10_NormalizeEquatesVariants ==
    (nu_out # <<>> /\ DifferOnlyByFragSlashWww(nu_in[1], nu_in[2]))
    => nu_out[1] = nu_out[2]

------------------------------------------------------------------------------
(* Specifications *)
vars == <<cvars, wvars, avars, nvars, pvars>>

\* one scrape_site run
Init == CrawlInit /\ CompileInit /\ AggIdle /\ NormIdle /\ PipeInit
Spec == Init /\ [][Next]_vars

\* one run_workflow call
InitPipe == PipeInit /\ CrawlInit /\ CompileInit /\ AggIdle /\ NormIdle
SpecPipe == InitPipe /\ [][PipeNext]_vars

\* the aggregation on a list of page records
InitAgg == AggInit /\ CrawlInit /\ CompileInit /\ NormIdle /\ PipeInit
NextAgg == AggregateOnce \/ AggregateAgain
SpecAgg == InitAgg /\ [][NextAgg]_vars

\* the loop of scrape_site, from the state scrape_site enters it in, on the
\* site with cycles and on the endless site.  The event loop runs every
\* coroutine that can run and every fetch attempt ends (page.goto has a
\* timeout): a step that can be taken is taken.
LoopSites == {3, EndlessSite}
LoopEntry ==
    /\ site \in LoopSites
    /\ max_pages \in 0..MaxPagesBound
    /\ visited = {}
    /\ rejected_urls = <<>>
    /\ queue = <<normalize_url(BaseUrl(site))>>
    /\ scraped_pages = <<>>
    /\ urls_to_fetch = <<>>
    /\ tasks = <<>>
    /\ semaphore = SemaphoreLimit
    /\ cpc = "loop"
    /\ ridx = 0
    /\ returned = None
    /\ dispatched = <<>>
    /\ attempts = {}
InitLoop == LoopEntry /\ CompileInit /\ AggIdle /\ NormIdle /\ PipeInit
NextLoop ==
    \/ StartBatch
    \/ LoopExit
    \/ \E i \in 1..Len(tasks) : TaskAcquire(i)
    \/ \E i \in 1..Len(tasks) : AttemptSucceeds(i)
    \/ \E i \in 1..Len(tasks) : AttemptFails(i)
    \/ \E i \in 1..Len(tasks) : AttemptFailsCloseRaises(i)
    \/ GatherReturns
    \/ ProcessResult
SpecLoop == InitLoop /\ [][NextLoop]_vars /\ WF_vars(NextLoop)

\* normalize_url on a pair of urls
InitNorm == NormInit /\ CrawlInit /\ CompileInit /\ AggIdle /\ PipeInit
NextNorm == ApplyNormalize
SpecNorm == InitNorm /\ [][NextNorm]_vars
====
